---- MODULE Spec2Model ----
(***************************************************************************)
(* Catapillar: the token-to-AST parser (parser/parser.py) and the          *)
(* AST-to-Python generator (mapper/python_mapper.py).                      *)
(*                                                                         *)
(* A Python str is modelled as a sequence of characters, each character a  *)
(* one-element TLA+ string.  A CJK character is one character too and is   *)
(* written as the atom "zh_<pinyin>":                                      *)
(*   zh_yin U+5370   zh_zhi U+7F6E   zh_diao U+8C03  zh_ding U+5B9A        *)
(*   zh_hui U+56DE   zh_ruo U+82E5   zh_you U+53C8   zh_fou U+5426         *)
(*   zh_ze U+5219    zh_dang U+5F53  zh_niu U+626D   zh_duan U+65AD        *)
(*   zh_xu U+7EED    zh_shi4 U+8BD5  zh_bu3 U+6355   zh_zhong U+7EC8       *)
(*   zh_yu U+4E8E    zh_kong U+7A7A  zh_jia U+52A0   zh_jian U+51CF        *)
(*   zh_cheng U+4E58 zh_chu U+9664   zh_jie U+7ED3   zh_shu U+675F         *)
(*   zh_wan U+5B8C   zh_le U+4E86    zh_du U+8BFB    zh_shu4 U+6570        *)
(*   zh_yun U+8FD0   zh_suan U+7B97  zh_fu U+7B26    zh_ling U+96F6        *)
(*   zh_cuo U+9519   zh_wu U+8BEF    zh_qi U+5176    zh_ta U+4ED6          *)
(*   zh_shi U+662F   zh_bu U+4E0D    zh_huo U+6216   zh_qie U+4E14         *)
(*   zh_zhen U+771F  zh_jia3 U+5047                                        *)
(***************************************************************************)
EXTENDS Integers, Sequences, FiniteSets, TLC

\* ------------------------------------------------------------------ bounds
\* longest statement list handed to map_program
MaxStmts == 3
\* longest token list handed to parse_tokens
MaxTokens == 2
\* longest argument list handed to map_set
MaxArgs == 5
\* longest free-form token handed to the value lowering
MaxTokLen == 2

\* ------------------------------------------------- str: characters and classes
Digit == {"0","1","2","3","4","5","6","7","8","9"}

AsciiLetter ==
  {"a","b","c","d","e","f","g","h","i","j","k","l","m",
   "n","o","p","q","r","s","t","u","v","w","x","y","z",
   "A","B","C","D","E","F","G","H","I","J","K","L","M",
   "N","O","P","Q","R","S","T","U","V","W","X","Y","Z"}

CJK ==
  {"zh_yin","zh_zhi","zh_diao","zh_ding","zh_hui","zh_ruo","zh_you","zh_fou",
   "zh_ze","zh_dang","zh_niu","zh_duan","zh_xu","zh_shi4","zh_bu3","zh_zhong",
   "zh_yu","zh_kong","zh_jia","zh_jian","zh_cheng","zh_chu","zh_jie","zh_shu",
   "zh_wan","zh_le","zh_du","zh_shu4","zh_yun","zh_suan","zh_fu","zh_ling",
   "zh_cuo","zh_wu","zh_qi","zh_ta","zh_shi","zh_bu","zh_huo","zh_qie",
   "zh_zhen","zh_jia3"}

Whitespace == {" "}

\* str.endswith(suffix) for a one-character suffix
EndsWith(s, c) == Len(s) > 0 /\ s[Len(s)] = c

\* str.rstrip(chars) for a one-character set: every trailing c is removed
RECURSIVE RStrip(_, _)
RStrip(s, c) ==
  IF EndsWith(s, c) THEN RStrip(SubSeq(s, 1, Len(s) - 1), c) ELSE s

\* sep.join(parts)
RECURSIVE Join(_, _)
Join(parts, sep) ==
  IF parts = <<>> THEN <<>>
  ELSE IF Len(parts) = 1 THEN parts[1]
  ELSE parts[1] \o sep \o Join(Tail(parts), sep)

\* s[i:].startswith(old)
MatchAt(s, i, old) ==
  /\ i + Len(old) - 1 <= Len(s)
  /\ SubSeq(s, i, i + Len(old) - 1) = old

\* str.replace(old, new), old non-empty: leftmost non-overlapping occurrences
RECURSIVE ReplaceFrom(_, _, _, _)
ReplaceFrom(s, i, old, new) ==
  IF i > Len(s) THEN <<>>
  ELSE IF MatchAt(s, i, old) THEN new \o ReplaceFrom(s, i + Len(old), old, new)
  ELSE <<s[i]>> \o ReplaceFrom(s, i + 1, old, new)

Replace(s, old, new) == ReplaceFrom(s, 1, old, new)

\* str.split(): the maximal runs of non-whitespace characters
RECURSIVE SplitFrom(_, _, _)
SplitFrom(s, i, cur) ==
  IF i > Len(s) THEN (IF cur = <<>> THEN <<>> ELSE <<cur>>)
  ELSE IF s[i] \in Whitespace
       THEN (IF cur = <<>> THEN <<>> ELSE <<cur>>) \o SplitFrom(s, i + 1, <<>>)
       ELSE SplitFrom(s, i + 1, Append(cur, s[i]))

Split(s) == SplitFrom(s, 1, <<>>)

\* str.strip()
RECURSIVE LStripWs(_)
LStripWs(s) == IF s # <<>> /\ s[1] \in Whitespace THEN LStripWs(Tail(s)) ELSE s

RECURSIVE RStripWs(_)
RStripWs(s) ==
  IF s # <<>> /\ s[Len(s)] \in Whitespace
  THEN RStripWs(SubSeq(s, 1, Len(s) - 1)) ELSE s

Strip(s) == RStripWs(LStripWs(s))

\* f'"{symbol}"'
Quote(s) == <<"\"">> \o s \o <<"\"">>

\* ------------------------------------------------ is_valid_identifier, is_numeric
\* str.isidentifier(): XID_Start (or "_") then XID_Continue characters
IsIdStart(c) == c \in AsciiLetter \cup CJK \cup {"_"}

IsIdContinue(c) == IsIdStart(c) \/ c \in Digit

is_valid_identifier(name) ==
  /\ name # <<>>
  /\ IsIdStart(name[1])
  /\ \A i \in 2..Len(name) : IsIdContinue(name[i])

\* float(str) succeeds: the decimal literal grammar of float(), as an automaton
FloatStep(q, c) ==
  CASE q = "start" /\ c \in {"+", "-"} -> "signed"
    [] q \in {"start", "signed"} /\ c \in Digit -> "int"
    [] q \in {"start", "signed"} /\ c = "." -> "dot0"
    [] q = "int" /\ c \in Digit -> "int"
    [] q = "int" /\ c = "_" -> "int_u"
    [] q = "int" /\ c = "." -> "frac0"
    [] q = "int_u" /\ c \in Digit -> "int"
    [] q \in {"dot0", "frac0", "frac", "frac_u"} /\ c \in Digit -> "frac"
    [] q = "frac" /\ c = "_" -> "frac_u"
    [] q \in {"int", "frac0", "frac"} /\ c \in {"e", "E"} -> "exp"
    [] q = "exp" /\ c \in {"+", "-"} -> "exp_s"
    [] q \in {"exp", "exp_s", "expd", "expd_u"} /\ c \in Digit -> "expd"
    [] q = "expd" /\ c = "_" -> "expd_u"
    [] OTHER -> "rej"

RECURSIVE FloatRun(_, _, _)
FloatRun(s, i, q) ==
  IF i > Len(s) THEN q ELSE FloatRun(s, i + 1, FloatStep(q, s[i]))

\* str.lower() on the letters of inf / infinity / nan
LowerChar(c) ==
  CASE c = "I" -> "i" [] c = "N" -> "n" [] c = "F" -> "f"
    [] c = "T" -> "t" [] c = "Y" -> "y" [] c = "A" -> "a"
    [] OTHER -> c

FloatWord(s) ==
  LET body == IF s # <<>> /\ s[1] \in {"+", "-"} THEN Tail(s) ELSE s
      low == [i \in 1..Len(body) |-> LowerChar(body[i])]
  IN low \in {<<"i","n","f">>, <<"i","n","f","i","n","i","t","y">>, <<"n","a","n">>}

is_numeric(symbol) ==
  /\ symbol # <<>>
  /\ LET s == Strip(symbol)
     IN \/ FloatRun(s, 1, "start") \in {"int", "frac0", "frac", "expd"}
        \/ FloatWord(s)

\* --------------------------------------------------------- value lowering
\* mutant: the numeric test is missing, a number is quoted like any text
to_py_value_no_numbers(symbol) ==
  IF symbol = <<>> THEN <<"\"","\"">>
  ELSE IF symbol \in {<<"T","r","u","e">>, <<"zh_zhen">>} THEN <<"T","r","u","e">>
  ELSE IF symbol \in {<<"F","a","l","s","e">>, <<"zh_jia3">>} THEN <<"F","a","l","s","e">>
  ELSE IF symbol = <<"N","o","n","e">> THEN <<"N","o","n","e">>
  ELSE IF is_valid_identifier(symbol) THEN symbol
  ELSE Quote(symbol)

to_py_value(symbol) ==
  IF symbol = <<>> THEN <<"\"","\"">>
  ELSE IF symbol \in {<<"T","r","u","e">>, <<"zh_zhen">>} THEN <<"T","r","u","e">>
  ELSE IF symbol \in {<<"F","a","l","s","e">>, <<"zh_jia3">>} THEN <<"F","a","l","s","e">>
  ELSE IF symbol = <<"N","o","n","e">> THEN <<"N","o","n","e">>
  ELSE IF is_numeric(symbol) THEN symbol
  ELSE IF symbol \in {<<"i","n","p","u","t">>, <<"f","l","o","a","t">>, <<"i","n","t">>, <<"s","t","r">>} THEN symbol
  ELSE IF is_valid_identifier(symbol) THEN symbol
  ELSE Quote(symbol)

CondOperators ==
  {<<"=","=">>, <<"!","=">>, <<">">>, <<"<">>, <<">","=">>, <<"<","=">>, <<"o","r">>, <<"a","n","d">>}

to_py_value_for_condition(symbol) ==
  IF symbol = <<>> THEN <<"\"","\"">>
  ELSE IF symbol \in {<<"T","r","u","e">>, <<"zh_zhen">>} THEN <<"T","r","u","e">>
  ELSE IF symbol \in {<<"F","a","l","s","e">>, <<"zh_jia3">>} THEN <<"F","a","l","s","e">>
  ELSE IF symbol = <<"N","o","n","e">> THEN <<"N","o","n","e">>
  ELSE IF is_numeric(symbol) THEN symbol
  ELSE IF symbol \in CondOperators THEN symbol
  ELSE IF is_valid_identifier(symbol)
       THEN (IF symbol \in {<<"q","u","i","t">>, <<"e","x","i","t">>} THEN Quote(symbol) ELSE symbol)
  ELSE Quote(symbol)

\* [to_py_value(arg) for arg in args]
MapValues(args) == [i \in 1..Len(args) |-> to_py_value(args[i])]

\* ------------------------------------------------------- simple statements
\* a lowering returns its text, or raises MapError(err)
Ok(text) == [err |-> "", text |-> text]

Raise(msg) == [err |-> msg, text |-> <<>>]

\* x in list
InSeq(x, seq) == \E i \in 1..Len(seq) : seq[i] = x

map_return(args) ==
  IF args = <<>> THEN Ok(<<"r","e","t","u","r","n">>)
  ELSE Ok(<<"r","e","t","u","r","n"," ">> \o to_py_value(Join(args, <<" ">>)))

map_print(args) ==
  IF args = <<>> THEN Ok(<<"p","r","i","n","t","(",")">>)
  ELSE IF Len(args) = 1 /\ is_valid_identifier(args[1])
       THEN Ok(<<"p","r","i","n","t","(">> \o args[1] \o <<")">>)
  ELSE LET literal == Join(args, <<" ">>)
           escaped == Replace(Replace(literal, <<"\\">>, <<"\\","\\">>), <<"\"">>, <<"\\","\"">>)
       IN Ok(<<"p","r","i","n","t","(","\"">> \o escaped \o <<"\"",")">>)

ArithAliases ==
  [add |-> {<<"zh_jia">>, <<"a","d","d">>}, sub |-> {<<"zh_jian">>, <<"s","u","b">>},
   mul |-> {<<"zh_cheng">>, <<"m","u","l">>}, div |-> {<<"zh_chu">>, <<"d","i","v">>}]

\* mutant: the len(args) != 4 test is missing
SetArithAnyLength(args, msg, sym) ==
  Ok(to_py_value(args[3]) \o <<" ">> \o sym \o <<" ">> \o to_py_value(args[4]))

\* the len(args) >= 4 arm of map_set for one operator alias
SetArith(args, msg, sym) ==
  IF Len(args) # 4 THEN Raise(msg)
  ELSE Ok(to_py_value(args[3]) \o <<" ">> \o sym \o <<" ">> \o to_py_value(args[4]))

\* the value text of map_set, after the target was accepted
SetValue(args) ==
  IF Len(args) = 2 THEN
    IF is_valid_identifier(args[2])
       /\ args[2] \in {<<"zh_du","zh_shu4">>, <<"zh_du","zh_yun","zh_suan","zh_fu">>, <<"i","n","p","u","t">>, <<"f","l","o","a","t">>, <<"i","n","t">>, <<"s","t","r">>}
    THEN Ok(args[2] \o <<"(",")">>)
    ELSE Ok(to_py_value(args[2]))
  ELSE IF Len(args) = 3 THEN
    IF args[2] \in ArithAliases.add THEN Raise("ADD in SET expects 4 args")
    ELSE IF args[2] \in ArithAliases.sub THEN Raise("SUB in SET expects 4 args")
    ELSE IF args[2] \in ArithAliases.mul THEN Raise("MUL in SET expects 4 args")
    ELSE IF args[2] \in ArithAliases.div THEN Raise("DIV in SET expects 4 args")
    ELSE Ok(args[2] \o <<"(">> \o to_py_value(args[3]) \o <<")">>)
  ELSE
    IF args[2] \in ArithAliases.add THEN SetArith(args, "ADD in SET expects: result op left right", <<"+">>)
    ELSE IF args[2] \in ArithAliases.sub THEN SetArith(args, "SUB in SET expects: result op left right", <<"-">>)
    ELSE IF args[2] \in ArithAliases.mul THEN SetArith(args, "MUL in SET expects: result op left right", <<"*">>)
    ELSE IF args[2] \in ArithAliases.div THEN SetArith(args, "DIV in SET expects: result op left right", <<"/">>)
    ELSE LET func_args == MapValues(SubSeq(args, 3, Len(args)))
         IN Ok(args[2] \o <<"(">> \o Join(func_args, <<","," ">>) \o <<")">>)

map_set(args) ==
  IF Len(args) < 2 THEN Raise("SET expects at least 2 arguments: variable value")
  ELSE IF ~is_valid_identifier(args[1]) THEN Raise("Invalid variable name")
  ELSE LET value == SetValue(args)
       IN IF value.err # "" THEN value
          ELSE Ok(args[1] \o <<" ","="," ">> \o value.text)

map_call(args) ==
  IF args = <<>> THEN Raise("CALL expects at least a function name")
  ELSE Ok(args[1] \o <<"(">> \o Join(MapValues(Tail(args)), <<","," ">>) \o <<")">>)

map_arithmetic(args, operator) ==
  IF Len(args) # 3
  THEN Raise("Arithmetic operation expects 3 arguments: result left right")
  ELSE IF ~is_valid_identifier(args[1]) THEN Raise("Invalid result variable")
  ELSE Ok(args[1] \o <<" ","="," ">> \o to_py_value(args[2]) \o <<" ">> \o operator
          \o <<" ">> \o to_py_value(args[3]))

\* -------------------------------------------------------- build_condition
\* args[-1] = args[-1].rstrip(":"), written into the caller's list
StripLastColon(args) ==
  IF args # <<>> /\ EndsWith(args[Len(args)], ":")
  THEN [args EXCEPT ![Len(args)] = RStrip(@, ":")]
  ELSE args

CondPart(part) ==
  IF part \in {<<"=","=">>, <<"!","=">>, <<"o","r">>, <<"a","n","d">>, <<">">>, <<"<">>, <<">","=">>, <<"<","=">>}
  THEN part
  ELSE to_py_value_for_condition(part)

\* mutant: the conjunction alias is not substituted
ConditionTextNoAnd(args) ==
  IF Len(args) >= 2 /\ is_valid_identifier(args[1])
     /\ ~InSeq(<<"zh_shi">>, args) /\ ~InSeq(<<"zh_huo">>, args)
  THEN args[1] \o <<"(">> \o Join(MapValues(Tail(args)), <<","," ">>) \o <<")">>
  ELSE LET s0 == Join(args, <<" ">>)
           s1 == Replace(s0, <<" ","zh_shi"," ">>, <<" ","=","="," ">>)
           s2 == Replace(s1, <<" ","zh_huo"," ">>, <<" ","o","r"," ">>)
           s4 == Replace(s2, <<" ","zh_bu","zh_shi"," ">>, <<" ","!","="," ">>)
           parts == Split(s4)
       IN Join([i \in 1..Len(parts) |-> CondPart(parts[i])], <<" ">>)

\* the text build_condition returns for the already colon-stripped list
ConditionText(args) ==
  IF Len(args) >= 2 /\ is_valid_identifier(args[1])
     /\ ~InSeq(<<"zh_shi">>, args) /\ ~InSeq(<<"zh_huo">>, args)
  THEN args[1] \o <<"(">> \o Join(MapValues(Tail(args)), <<","," ">>) \o <<")">>
  ELSE LET s0 == Join(args, <<" ">>)
           s1 == Replace(s0, <<" ","zh_shi"," ">>, <<" ","=","="," ">>)
           s2 == Replace(s1, <<" ","zh_huo"," ">>, <<" ","o","r"," ">>)
           s3 == Replace(s2, <<" ","zh_qie"," ">>, <<" ","a","n","d"," ">>)
           s4 == Replace(s3, <<" ","zh_bu","zh_shi"," ">>, <<" ","!","="," ">>)
           parts == Split(s4)
       IN Join([i \in 1..Len(parts) |-> CondPart(parts[i])], <<" ">>)

\* the returned text and the argument list as the call leaves it
build_condition(args) ==
  LET stripped == StripLastColon(args)
  IN [text |-> ConditionText(stripped), args |-> stripped]

\* ------------------------------------------------------------ IndentContext
indent_str == <<" "," "," "," ">>

NewIndentContext == [level |-> 0, last_was_block_end |-> FALSE]

\* mutant: a block opener leaves the level as it was
indent_not_at_all(ctx) == ctx

indent(ctx) == [ctx EXCEPT !.level = @ + 1]

\* mutant: the level is decreased without the level > 0 test
dedent_unguarded(ctx) == [ctx EXCEPT !.level = @ - 1]

dedent(ctx) == IF ctx.level > 0 THEN [ctx EXCEPT !.level = @ - 1] ELSE ctx

RECURSIVE Repeat(_, _)
Repeat(s, n) == IF n <= 0 THEN <<>> ELSE s \o Repeat(s, n - 1)

get_indent(ctx) == Repeat(indent_str, ctx.level)

\* ------------------------------------------------------- block-opening lines
\* a block lowering returns its lines, the tracker and the argument list as it
\* leaves them, or raises MapError(err)
Opened(text, ctx, args) ==
  [err |-> "", lines |-> <<get_indent(ctx) \o text>>, ctx |-> indent(ctx),
   args |-> args]

Failed(msg, ctx, args) ==
  [err |-> msg, lines |-> <<>>, ctx |-> ctx, args |-> args]

map_def(args, ctx) ==
  IF args = <<>> THEN Failed("DEF expects at least a function name", ctx, args)
  ELSE LET func_name == RStrip(args[1], ":")
           params == [i \in 1..(Len(args) - 1) |-> RStrip(args[i + 1], ":")]
           param_str == IF Len(args) = 1 THEN <<>> ELSE Join(params, <<","," ">>)
       IN Opened(<<"d","e","f"," ">> \o func_name \o <<"(">> \o param_str \o <<")",":">>, ctx, args)

map_if(args, ctx) ==
  IF args = <<>> THEN Failed("IF expects a condition", ctx, args)
  ELSE LET c == build_condition(args)
       IN Opened(<<"i","f"," ">> \o c.text \o <<":">>, ctx, c.args)

map_elif(args, ctx) ==
  IF args = <<>> THEN Failed("ELIF expects a condition", ctx, args)
  ELSE LET c == build_condition(args)
       IN Opened(<<"e","l","i","f"," ">> \o c.text \o <<":">>, ctx, c.args)

map_else(args, ctx) == Opened(<<"e","l","s","e",":">>, ctx, args)

map_while(args, ctx) ==
  IF args = <<>> THEN Failed("WHILE expects a condition", ctx, args)
  ELSE LET c == build_condition(args)
       IN Opened(<<"w","h","i","l","e"," ">> \o c.text \o <<":">>, ctx, c.args)

map_for(args, ctx) ==
  IF Len(args) < 3 THEN Failed("FOR expects: variable in iterable", ctx, args)
  ELSE LET rest == IF args[2] = <<"i","n">> THEN SubSeq(args, 3, Len(args))
                   ELSE SubSeq(args, 2, Len(args))
           iterable == RStrip(Join(rest, <<" ">>), ":")
       IN Opened(<<"f","o","r"," ">> \o args[1] \o <<" ","i","n"," ">> \o iterable \o <<":">>, ctx, args)

map_try(args, ctx) == Opened(<<"t","r","y",":">>, ctx, args)

exception_map(exception) ==
  IF exception = <<"zh_ling","zh_chu","zh_cuo","zh_wu">> THEN <<"Z","e","r","o","D","i","v","i","s","i","o","n","E","r","r","o","r">>
  ELSE IF exception = <<"zh_qi","zh_ta","zh_cuo","zh_wu">> THEN <<"E","x","c","e","p","t","i","o","n">>
  ELSE exception

map_except(args, ctx) ==
  IF args # <<>>
  THEN Opened(<<"e","x","c","e","p","t"," ">> \o exception_map(RStrip(args[1], ":")) \o <<":">>, ctx, args)
  ELSE Opened(<<"e","x","c","e","p","t",":">>, ctx, args)

map_finally(args, ctx) == Opened(<<"f","i","n","a","l","l","y",":">>, ctx, args)

\* ------------------------------------------------------------- AST nodes
\* dict.get() of a key the node does not carry
None == "None"

Line(action, args, line_state) ==
  [type |-> "Line", action |-> action, args |-> args, name |-> None,
   from |-> None, to |-> None, direction |-> None, lines |-> None,
   line_state |-> line_state]

Block(name, line_state) ==
  [type |-> "Block", action |-> None, args |-> <<>>, name |-> name,
   from |-> None, to |-> None, direction |-> None, lines |-> <<>>,
   line_state |-> line_state]

Arrow(from, to, direction, line_state) ==
  [type |-> "Arrow", action |-> None, args |-> <<>>, name |-> None,
   from |-> from, to |-> to, direction |-> direction, lines |-> None,
   line_state |-> line_state]

BlockEnd(line_state) ==
  [type |-> "BLOCK_END", action |-> None, args |-> <<>>, name |-> None,
   from |-> None, to |-> None, direction |-> None, lines |-> None,
   line_state |-> line_state]

Segment(lines) == [type |-> "Segment", lines |-> lines]

Flow(segments) == [type |-> "Flow", segments |-> segments]

Program(flows) == [type |-> "Program", flows |-> flows]

\* ---------------------------------------------------------------- map_line
\* a statement lowering returns its lines, the tracker and the statement as it
\* leaves them, or raises MapError(err)
Simple(res, line, ctx) ==
  [err |-> res.err,
   lines |-> IF res.err = "" THEN <<get_indent(ctx) \o res.text>> ELSE <<>>,
   ctx |-> ctx, stmt |-> line]

Header(res, line) ==
  [err |-> res.err, lines |-> res.lines, ctx |-> res.ctx,
   stmt |-> [line EXCEPT !.args = res.args]]

map_line(line, ctx) ==
  LET action == line.action
      args == line.args
  IN IF line.type # "Line"
     THEN [err |-> "Expected Line node", lines |-> <<>>, ctx |-> ctx, stmt |-> line]
     ELSE CASE action = "DEF" -> Header(map_def(args, ctx), line)
            [] action = "IF" -> Header(map_if(args, ctx), line)
            [] action = "ELIF" -> Header(map_elif(args, ctx), line)
            [] action = "ELSE" -> Header(map_else(args, ctx), line)
            [] action = "WHILE" -> Header(map_while(args, ctx), line)
            [] action = "FOR" -> Header(map_for(args, ctx), line)
            [] action = "TRY" -> Header(map_try(args, ctx), line)
            [] action = "EXCEPT" -> Header(map_except(args, ctx), line)
            [] action = "FINALLY" -> Header(map_finally(args, ctx), line)
            [] action = "RETURN" -> Simple(map_return(args), line, ctx)
            [] action = "BREAK" -> Simple(Ok(<<"b","r","e","a","k">>), line, ctx)
            [] action = "CONTINUE" -> Simple(Ok(<<"c","o","n","t","i","n","u","e">>), line, ctx)
            [] action = "PASS" -> Simple(Ok(<<"p","a","s","s">>), line, ctx)
            [] action = "PRINT" -> Simple(map_print(args), line, ctx)
            [] action = "SET" -> Simple(map_set(args), line, ctx)
            [] action = "CALL" -> Simple(map_call(args), line, ctx)
            [] action = "ADD" -> Simple(map_arithmetic(args, <<"+">>), line, ctx)
            [] action = "SUB" -> Simple(map_arithmetic(args, <<"-">>), line, ctx)
            [] action = "MUL" -> Simple(map_arithmetic(args, <<"*">>), line, ctx)
            [] action = "DIV" -> Simple(map_arithmetic(args, <<"/">>), line, ctx)
            [] OTHER -> [err |-> "Unhandled ActionID", lines |-> <<>>,
                         ctx |-> ctx, stmt |-> line]

Continuations == {"ELIF", "ELSE", "EXCEPT", "FINALLY"}

\* mutant: the continuation dedent ignores last_was_block_end
map_line_dedent_always(line, ctx) ==
  IF line.action \in Continuations
  THEN map_line(line, dedent(ctx))
  ELSE map_line(line, ctx)

map_line_with_block_end_tracking(line, ctx) ==
  IF line.action \in Continuations /\ ~ctx.last_was_block_end
  THEN map_line(line, dedent(ctx))
  ELSE map_line(line, ctx)

\* mutant: a Block lowers to a placeholder line
map_block_placeholder(block, ctx) == <<get_indent(ctx) \o <<"p","a","s","s">>>>

map_block(block, ctx) == <<>>

\* mutant: a BLOCK_END dedents but does not set last_was_block_end
map_statement_flag_never_set(stmt, ctx) ==
  CASE stmt.type = "Line" ->
         LET r == map_line_with_block_end_tracking(stmt, ctx)
         IN IF r.err # "" THEN r
            ELSE [r EXCEPT !.ctx.last_was_block_end = FALSE]
    [] stmt.type = "Block" ->
         [err |-> "", lines |-> map_block(stmt, ctx),
          ctx |-> [ctx EXCEPT !.last_was_block_end = FALSE], stmt |-> stmt]
    [] stmt.type = "BLOCK_END" ->
         [err |-> "", lines |-> <<>>, ctx |-> dedent(ctx), stmt |-> stmt]
    [] stmt.type = "Arrow" ->
         [err |-> "", lines |-> <<>>, ctx |-> ctx, stmt |-> stmt]
    [] OTHER ->
         [err |-> "Unknown statement type", lines |-> <<>>, ctx |-> ctx,
          stmt |-> stmt]

\* on a MapError the tracker keeps what the statement did before raising
map_statement(stmt, ctx) ==
  CASE stmt.type = "Line" ->
         LET r == map_line_with_block_end_tracking(stmt, ctx)
         IN IF r.err # "" THEN r
            ELSE [r EXCEPT !.ctx.last_was_block_end = FALSE]
    [] stmt.type = "Block" ->
         [err |-> "", lines |-> map_block(stmt, ctx),
          ctx |-> [ctx EXCEPT !.last_was_block_end = FALSE], stmt |-> stmt]
    [] stmt.type = "BLOCK_END" ->
         [err |-> "", lines |-> <<>>,
          ctx |-> [dedent(ctx) EXCEPT !.last_was_block_end = TRUE], stmt |-> stmt]
    [] stmt.type = "Arrow" ->
         [err |-> "", lines |-> <<>>, ctx |-> ctx, stmt |-> stmt]
    [] OTHER ->
         [err |-> "Unknown statement type", lines |-> <<>>, ctx |-> ctx,
          stmt |-> stmt]

\* ------------------------------------------------------------------ state
VARIABLES
  \* map_program: the AST object being walked, its value at the call, the
  \* index of the next statement, the IndentContext, the lines so far, the
  \* returned text, and whether the call runs, returned or raised
  program, program_in, gpos, ctx, lines, output, gstatus, gerror,
  \* parse_tokens: the token list, the index of the next token, the three
  \* accumulators, and whether the call runs, returned or raised
  tokens, tpos, flows, current_flow, current_segment, pstatus, perror,
  \* one call of a lowering helper: its arguments and what it returned
  fn_args, fn_out,
  \* main of the driver: the --mode option and the pipeline it chose
  mode, chosen

gen_vars == <<program, program_in, gpos, ctx, lines, output, gstatus, gerror>>

parse_vars ==
  <<tokens, tpos, flows, current_flow, current_segment, pstatus, perror>>

fn_vars == <<fn_args, fn_out>>

drv_vars == <<mode, chosen>>

vars == <<gen_vars, parse_vars, fn_vars, drv_vars>>

\* all sequences over pool of length at most n
BSeq(pool, n) == UNION {[1..k -> pool] : k \in 0..n}

GenIdle ==
  /\ program = Program(<<>>) /\ program_in = Program(<<>>)
  /\ gpos = 1 /\ ctx = NewIndentContext /\ lines = <<>> /\ output = None
  /\ gstatus = "idle" /\ gerror = ""

ParseIdle ==
  /\ tokens = <<>> /\ tpos = 1 /\ flows = <<>> /\ current_flow = <<>>
  /\ current_segment = <<>> /\ pstatus = "idle" /\ perror = ""

FnIdle ==
  /\ fn_args = <<>>
  /\ fn_out = [fn |-> "", sym |-> <<>>, err |-> "", text |-> <<>>, cond |-> <<>>]

DrvIdle == mode = "auto" /\ chosen = None

\* ------------------------------------------------------------- map_program
\* the statements a generation run is given
StmtPool ==
  { Line("IF", <<<<"x">>, <<"zh_shi">>, <<"1",":">>>>, "~"),
    Line("ELIF", <<>>, "~"),
    Line("ELIF", <<<<"y",":">>>>, "~"),
    Line("ELSE", <<>>, "~"),
    Line("WHILE", <<<<"o","k">>, <<"x",":">>>>, "~"),
    Line("DEF", <<<<"f",":">>>>, "~"),
    Line("TRY", <<>>, "~"),
    Line("EXCEPT", <<<<"zh_ling","zh_chu","zh_cuo","zh_wu",":">>>>, "~"),
    Line("FINALLY", <<>>, "~"),
    Line("PASS", <<>>, ">"),
    Line("PRINT", <<<<"x">>>>, "~"),
    Line("SET", <<<<"r">>, <<"a","d","d">>, <<"2">>>>, "~"),
    Line("FOR", <<<<"i">>, <<"i","n">>, <<"x","s",":">>>>, "~"),
    Line("RETURN", <<<<"x">>, <<"y">>>>, "~"),
    Line("BREAK", <<>>, "~"),
    Line("CONTINUE", <<>>, "~"),
    Line("CALL", <<<<"f">>, <<"a",".","b">>>>, "~"),
    Line("ADD", <<<<"r">>, <<"1">>, <<"x">>>>, "~"),
    Line("SUB", <<<<"r">>, <<"1">>>>, "~"),
    Line("MUL", <<<<"r">>, <<"zh_zhen">>, <<"2">>>>, "~"),
    Line("DIV", <<<<"1","r">>, <<"1">>, <<"2">>>>, "~"),
    BlockEnd("~"),
    Arrow(<<"A">>, <<"B">>, "->", "~"),
    Block(<<"f","l","o","w">>, "~") }

\* the segments parse_tokens cuts a statement list into: a Line or Arrow whose
\* line_state is ">" ends its segment, and a trailing non-empty one is flushed
RECURSIVE SegmentsOf(_, _)
SegmentsOf(stmts, cur) ==
  IF stmts = <<>> THEN (IF cur = <<>> THEN <<>> ELSE <<Segment(cur)>>)
  ELSE LET s == Head(stmts)
       IN IF s.type \in {"Line", "Arrow"} /\ s.line_state = ">"
          THEN <<Segment(Append(cur, s))>> \o SegmentsOf(Tail(stmts), <<>>)
          ELSE SegmentsOf(Tail(stmts), Append(cur, s))

ProgramOf(stmts) ==
  IF stmts = <<>> THEN Program(<<>>)
  ELSE Program(<<Flow(SegmentsOf(stmts, <<>>))>>)

\* for flow in flows: for segment in segments: for line in lines
RECURSIVE SegmentPaths(_, _, _)
SegmentPaths(segments, f, s) ==
  IF s > Len(segments) THEN <<>>
  ELSE [l \in 1..Len(segments[s].lines) |-> <<f, s, l>>]
       \o SegmentPaths(segments, f, s + 1)

RECURSIVE FlowPaths(_, _)
FlowPaths(fls, f) ==
  IF f > Len(fls) THEN <<>>
  ELSE SegmentPaths(fls[f].segments, f, 1) \o FlowPaths(fls, f + 1)

Paths(prog) == FlowPaths(prog.flows, 1)

StmtAt(prog, p) == prog.flows[p[1]].segments[p[2]].lines[p[3]]

\* the statements of a Program in the order map_program visits them
Statements(prog) ==
  LET ps == Paths(prog) IN [i \in 1..Len(ps) |-> StmtAt(prog, ps[i])]

GenInit ==
  /\ \E stmts \in BSeq(StmtPool, MaxStmts) :
       /\ program = ProgramOf(stmts)
       /\ program_in = ProgramOf(stmts)
  /\ gpos = 1
  /\ ctx = NewIndentContext
  /\ lines = <<>>
  /\ output = None
  /\ gstatus = "run"
  /\ gerror = ""

\* one iteration of the loop of map_segment: map_statement on the next
\* statement, its lines appended, a MapError ending the call
MapStatementStep ==
  /\ gstatus = "run"
  /\ gpos <= Len(Paths(program))
  /\ LET p == Paths(program)[gpos]
         r == map_statement(StmtAt(program, p), ctx)
     IN /\ program' =
             [program EXCEPT !.flows[p[1]].segments[p[2]].lines[p[3]] = r.stmt]
        /\ ctx' = r.ctx
        /\ IF r.err # ""
           THEN /\ gstatus' = "error"
                /\ gerror' = r.err
                /\ UNCHANGED <<gpos, lines>>
           ELSE /\ lines' = IF r.lines # <<>> THEN lines \o r.lines ELSE lines
                /\ gpos' = gpos + 1
                /\ UNCHANGED <<gstatus, gerror>>
  /\ UNCHANGED <<program_in, output, parse_vars, fn_vars, drv_vars>>

\* return "\n".join(lines)
MapProgramReturn ==
  /\ gstatus = "run"
  /\ gpos > Len(Paths(program))
  /\ gstatus' = "done"
  /\ output' = Join(lines, <<"\n">>)
  /\ UNCHANGED <<program, program_in, gpos, ctx, lines, gerror, parse_vars, fn_vars, drv_vars>>

Init == GenInit /\ ParseIdle /\ FnIdle /\ DrvIdle

Next == MapStatementStep \/ MapProgramReturn

Spec == Init /\ [][Next]_vars

\* ------------------------------------------------------------ parse_tokens
ACTION_IDS ==
  ("PRINT" :> {<<"p","r","i","n","t">>, <<"zh_yin">>}) @@
  ("SET" :> {<<"s","e","t">>, <<"zh_zhi">>}) @@
  ("CALL" :> {<<"c","a","l","l">>, <<"zh_diao">>}) @@
  ("DEF" :> {<<"d","e","f">>, <<"zh_ding">>}) @@
  ("RETURN" :> {<<"r","e","t","u","r","n">>, <<"zh_hui">>}) @@
  ("IF" :> {<<"i","f">>, <<"zh_ruo">>}) @@
  ("ELIF" :> {<<"e","l","i","f">>, <<"zh_you","zh_ruo">>}) @@
  ("ELSE" :> {<<"e","l","s","e">>, <<"zh_fou","zh_ze">>}) @@
  ("WHILE" :> {<<"w","h","i","l","e">>, <<"zh_dang">>}) @@
  ("FOR" :> {<<"f","o","r">>, <<"zh_niu","zh_niu">>}) @@
  ("BREAK" :> {<<"b","r","e","a","k">>, <<"zh_duan">>}) @@
  ("CONTINUE" :> {<<"c","o","n","t","i","n","u","e">>, <<"zh_xu">>}) @@
  ("TRY" :> {<<"t","r","y">>, <<"zh_shi4">>}) @@
  ("EXCEPT" :> {<<"e","x","c","e","p","t">>, <<"zh_bu3">>}) @@
  ("FINALLY" :> {<<"f","i","n","a","l","l","y">>, <<"zh_zhong","zh_yu">>}) @@
  ("PASS" :> {<<"p","a","s","s">>, <<"zh_kong">>}) @@
  ("ADD" :> {<<"a","d","d">>, <<"zh_jia">>}) @@
  ("SUB" :> {<<"s","u","b">>, <<"zh_jian">>}) @@
  ("MUL" :> {<<"m","u","l">>, <<"zh_cheng">>}) @@
  ("DIV" :> {<<"d","i","v">>, <<"zh_chu">>})

STRUCT_IDS == ("BLOCK_END" :> {<<"e","n","d">>, <<"zh_jie","zh_shu">>, <<"zh_wan","zh_le">>, <<"zh_zhong">>})

\* word in ACTION_LOOKUP, and ACTION_LOOKUP[word]
InActionLookup(word) == \E id \in DOMAIN ACTION_IDS : word \in ACTION_IDS[id]

ACTION_LOOKUP(word) == CHOOSE id \in DOMAIN ACTION_IDS : word \in ACTION_IDS[id]

InStructLookup(word) == \E id \in DOMAIN STRUCT_IDS : word \in STRUCT_IDS[id]

STRUCT_LOOKUP(word) == CHOOSE id \in DOMAIN STRUCT_IDS : word \in STRUCT_IDS[id]

LINE_STATES == {"~", ">", "<", "!", "?"}

Token(raw_action, raw_args, line_state) ==
  [raw_action |-> raw_action, raw_args |-> raw_args, line_state |-> line_state]

\* the tokens a parse is given: every leading keyword with every argument
\* list and every line_state below ("#" is outside LINE_STATES)
TokenPool ==
  { Token(a, r, s) :
      a \in {<<"e","n","d">>, <<"e","l","s","e",":">>, <<"zh_bu3",":">>, <<"f","l","o","w",":">>, <<"p","r","i","n","t">>, <<"A">>},
      r \in {<<>>, <<<<"-",">">>, <<"B">>>>, <<<<"x">>, <<"<","-">>>>},
      s \in {"~", ">", "#"} }

\* mutant: only the forward marker is looked for
arrow_type_forward_only(raw_args) ==
  IF InSeq(<<"-",">">>, raw_args) THEN <<"-",">">> ELSE None

\* arrow_type as lines 117-122 set it
arrow_type(raw_args) ==
  IF InSeq(<<"-",">">>, raw_args) THEN <<"-",">">>
  ELSE IF InSeq(<<"<","-">>, raw_args) THEN <<"<","-">>
  ELSE None

\* list.index(x), x in the list
Index(seq, x) == CHOOSE i \in 1..Len(seq) : seq[i] = x /\ \A j \in 1..(i - 1) : seq[j] # x

ParseInit ==
  /\ tokens \in BSeq(TokenPool, MaxTokens)
  /\ tpos = 1
  /\ flows = <<>>
  /\ current_flow = <<>>
  /\ current_segment = <<>>
  /\ pstatus = "run"
  /\ perror = ""

\* current_segment["lines"].append(node); continue
AppendAndContinue(node) ==
  /\ current_segment' = Append(current_segment, node)
  /\ tpos' = tpos + 1
  /\ UNCHANGED <<tokens, flows, current_flow, pstatus, perror>>

\* current_segment["lines"].append(node), then the segment closing of 226-231
AppendAndClose(node, line_state) ==
  /\ IF line_state = ">"
     THEN /\ current_flow' = Append(current_flow, Segment(Append(current_segment, node)))
          /\ current_segment' = <<>>
     ELSE /\ current_segment' = Append(current_segment, node)
          /\ UNCHANGED current_flow
  /\ tpos' = tpos + 1
  /\ UNCHANGED <<tokens, flows, pstatus, perror>>

ParseRaise(msg) ==
  /\ pstatus' = "error"
  /\ perror' = msg
  /\ UNCHANGED <<tokens, tpos, flows, current_flow, current_segment>>

HasToken == pstatus = "run" /\ tpos <= Len(tokens)

\* lines 95-105: a structural keyword
ParseBlockEnd ==
  /\ HasToken
  /\ LET token == tokens[tpos]
     IN /\ InStructLookup(token.raw_action)
        /\ STRUCT_LOOKUP(token.raw_action) = "BLOCK_END"
        /\ AppendAndContinue(BlockEnd(token.line_state))
  /\ UNCHANGED <<gen_vars, fn_vars, drv_vars>>

\* lines 110-111
ParseInvalidLineState ==
  /\ HasToken
  /\ LET token == tokens[tpos]
     IN /\ ~InStructLookup(token.raw_action)
        /\ token.line_state \notin LINE_STATES
        /\ ParseRaise("Invalid line_state")
  /\ UNCHANGED <<gen_vars, fn_vars, drv_vars>>

\* lines 127-172: a leading keyword that ends with a colon
ParseBlockHeader ==
  /\ HasToken
  /\ LET token == tokens[tpos]
         block_name == SubSeq(token.raw_action, 1, Len(token.raw_action) - 1)
     IN /\ ~InStructLookup(token.raw_action)
        /\ token.line_state \in LINE_STATES
        /\ EndsWith(token.raw_action, ":")
        /\ IF block_name \in {<<"zh_fou","zh_ze">>, <<"e","l","s","e">>}
           THEN AppendAndContinue(Line("ELSE", <<>>, token.line_state))
           ELSE IF block_name \in {<<"zh_shi4">>, <<"t","r","y">>}
           THEN AppendAndContinue(Line("TRY", <<>>, token.line_state))
           ELSE IF block_name \in {<<"zh_zhong","zh_yu">>, <<"f","i","n","a","l","l","y">>}
           THEN AppendAndContinue(Line("FINALLY", <<>>, token.line_state))
           ELSE AppendAndContinue(Block(block_name, token.line_state))
  /\ UNCHANGED <<gen_vars, fn_vars, drv_vars>>

\* lines 177-202 and 226-231: an arrow line
ParseArrow ==
  /\ HasToken
  /\ LET token == tokens[tpos]
         at == arrow_type(token.raw_args)
         idx == Index(token.raw_args, at)
         right == token.raw_args[idx + 1]
     IN /\ ~InStructLookup(token.raw_action)
        /\ token.line_state \in LINE_STATES
        /\ ~EndsWith(token.raw_action, ":")
        /\ at # None
        /\ IF idx + 1 > Len(token.raw_args)
           THEN ParseRaise("Arrow missing target")
           ELSE AppendAndClose(
                  IF at = <<"-",">">>
                  THEN Arrow(token.raw_action, right, at, token.line_state)
                  ELSE Arrow(right, token.raw_action, at, token.line_state),
                  token.line_state)
  /\ UNCHANGED <<gen_vars, fn_vars, drv_vars>>

\* lines 207-221 and 226-231: a legacy action line
ParseLegacy ==
  /\ HasToken
  /\ LET token == tokens[tpos]
     IN /\ ~InStructLookup(token.raw_action)
        /\ token.line_state \in LINE_STATES
        /\ ~EndsWith(token.raw_action, ":")
        /\ arrow_type(token.raw_args) = None
        /\ IF ~InActionLookup(token.raw_action)
           THEN ParseRaise("Unknown action")
           ELSE AppendAndClose(
                  Line(ACTION_LOOKUP(token.raw_action), token.raw_args,
                       token.line_state),
                  token.line_state)
  /\ UNCHANGED <<gen_vars, fn_vars, drv_vars>>

\* mutant: the trailing unclosed segment is not flushed
ParseReturnNoFlush ==
  /\ pstatus = "run"
  /\ tpos > Len(tokens)
  /\ flows' = IF current_flow # <<>> THEN Append(flows, Flow(current_flow)) ELSE flows
  /\ pstatus' = "done"
  /\ UNCHANGED <<tokens, tpos, current_flow, current_segment, perror, gen_vars, fn_vars, drv_vars>>

\* lines 236-243: flush the final segment and the flow, return program
ParseReturn ==
  /\ pstatus = "run"
  /\ tpos > Len(tokens)
  /\ LET segments == IF current_segment # <<>>
                     THEN Append(current_flow, Segment(current_segment))
                     ELSE current_flow
     IN /\ current_flow' = segments
        /\ flows' = IF segments # <<>> THEN Append(flows, Flow(segments)) ELSE flows
  /\ pstatus' = "done"
  /\ UNCHANGED <<tokens, tpos, current_segment, perror, gen_vars, fn_vars, drv_vars>>

InitParse == ParseInit /\ GenIdle /\ FnIdle /\ DrvIdle

NextParse ==
  \/ ParseBlockEnd
  \/ ParseInvalidLineState
  \/ ParseBlockHeader
  \/ ParseArrow
  \/ ParseLegacy
  \/ ParseReturn

SpecParse == InitParse /\ [][NextParse]_vars

\* ------------------------------------------------- the lowering helpers alone
\* argument tokens for map_set: a target, a non-identifier, two operator
\* aliases, a builtin and a plain name
SetTokens == {<<"r">>, <<"2">>, <<"a","d","d">>, <<"zh_jian">>, <<"f","l","o","a","t">>}

ValueChars == {"x", "1", ".", "-", "=", ">", "_", "e", ":", "zh_shi"}

\* tokens for the value lowering: every string over ValueChars up to MaxTokLen
\* and the words the two lowerings name
ValueTokens ==
  BSeq(ValueChars, MaxTokLen) \cup
  {<<"T","r","u","e">>, <<"F","a","l","s","e">>, <<"N","o","n","e">>, <<"zh_zhen">>, <<"zh_jia3">>, <<"q","u","i","t">>, <<"e","x","i","t">>, <<"i","n","p","u","t">>,
   <<"f","l","o","a","t">>, <<"i","n","t">>, <<"s","t","r">>, <<"o","r">>, <<"a","n","d">>, <<"=","=">>, <<"!","=">>, <<">","=">>, <<"<","=">>, <<"<">>,
   <<"i","n","f">>, <<"n","a","n">>, <<"1","e","5">>, <<"-","1",".","5">>, <<"h","e","l","l","o">>, <<"a"," ","b">>, <<"x","1">>, <<"1","x">>}

NoCall == [fn |-> "", sym |-> <<>>, err |-> "", text |-> <<>>, cond |-> <<>>]

InitLower ==
  /\ fn_args \in BSeq(SetTokens, MaxArgs) \cup {<<t>> : t \in ValueTokens}
  /\ fn_out = NoCall
  /\ GenIdle
  /\ ParseIdle
  /\ DrvIdle

\* map_set(fn_args)
LowerSet ==
  /\ fn_out.fn = ""
  /\ LET r == map_set(fn_args)
     IN fn_out' = [fn |-> "map_set", sym |-> <<>>, err |-> r.err,
                   text |-> r.text, cond |-> <<>>]
  /\ UNCHANGED <<fn_args, gen_vars, parse_vars, drv_vars>>

\* to_py_value(symbol) and to_py_value_for_condition(symbol) on one token
LowerValue ==
  /\ fn_out.fn = ""
  /\ \E i \in 1..Len(fn_args) :
       fn_out' = [fn |-> "value", sym |-> fn_args[i], err |-> "",
                  text |-> to_py_value(fn_args[i]),
                  cond |-> to_py_value_for_condition(fn_args[i])]
  /\ UNCHANGED <<fn_args, gen_vars, parse_vars, drv_vars>>

NextLower == LowerSet \/ LowerValue

SpecLower == InitLower /\ [][NextLower]_vars


\* --------------------------------------------------------- the driver's main
\* _iter_lines_from_ast: the statements of Program -> flows -> segments -> lines
iter_lines_from_ast(ast) == Statements(ast)

\* _ast_contains_legacy_lines: a Line at the top level or inside a Block
ast_contains_legacy_lines(ast) ==
  LET stmts == iter_lines_from_ast(ast)
  IN \E i \in 1..Len(stmts) :
       \/ stmts[i].type = "Line"
       \/ /\ stmts[i].type = "Block"
          /\ \E j \in 1..Len(stmts[i].lines) : stmts[i].lines[j].type = "Line"

\* _ast_contains_arrows
ast_contains_arrows(ast) ==
  LET stmts == iter_lines_from_ast(ast)
  IN \E i \in 1..Len(stmts) : stmts[i].type = "Arrow"

\* the values of --mode a run is given, lower-cased as line 101 leaves them
Modes == {"auto", "flow", "python", "fast"}

\* lines 124-131: the pipeline chosen for the mode
ChosenFor(m, has_legacy, has_arrows) ==
  IF m = "auto"
  THEN IF has_arrows THEN "flow"
       ELSE IF has_legacy THEN "python"
       ELSE "flow"
  ELSE m

\* lines 113-118, 124-131: parse returned and the mode is known
DriverChoose ==
  /\ pstatus = "done"
  /\ chosen = None
  /\ mode \in {"auto", "flow", "python"}
  /\ LET ast == Program(flows)
         has_legacy == ast_contains_legacy_lines(ast)
         has_arrows == ast_contains_arrows(ast)
     IN chosen' = ChosenFor(mode, has_legacy, has_arrows)
  /\ UNCHANGED <<mode, gen_vars, parse_vars, fn_vars>>

\* lines 120-122: an unknown mode ends the run with status 1
DriverUnknownMode ==
  /\ pstatus = "done"
  /\ chosen = None
  /\ mode \notin {"auto", "flow", "python"}
  /\ chosen' = "exit"
  /\ UNCHANGED <<mode, gen_vars, parse_vars, fn_vars>>

InitDriver ==
  /\ ParseInit
  /\ mode \in Modes
  /\ chosen = None
  /\ GenIdle
  /\ FnIdle

NextDriver == NextParse \/ DriverChoose \/ DriverUnknownMode

SpecDriver == InitDriver /\ [][NextDriver]_vars

\* --------------------------------------------------- build_condition alone
MaxCondArgs == 4

\* argument tokens of a condition: a name, a number, an operator, the four
\* aliases, and a number and an alias with the colon that ends a header
CondTokens ==
  {<<"x">>, <<"1">>, <<"=","=">>, <<"zh_shi">>, <<"zh_bu","zh_shi">>, <<"zh_huo">>, <<"zh_qie">>, <<"1",":">>, <<"zh_shi",":">>}

InitCond ==
  /\ fn_args \in BSeq(CondTokens, MaxCondArgs)
  /\ fn_out = NoCall
  /\ GenIdle
  /\ ParseIdle
  /\ DrvIdle

\* build_condition(fn_args): the text returned, the list with its last
\* token stripped of its colons
BuildCondition ==
  /\ fn_out.fn = ""
  /\ LET r == build_condition(fn_args)
     IN /\ fn_args' = r.args
        /\ fn_out' = [fn |-> "build_condition", sym |-> <<>>, err |-> "",
                      text |-> r.text, cond |-> <<>>]
  /\ UNCHANGED <<gen_vars, parse_vars, drv_vars>>

NextCond == BuildCondition

SpecCond == InitCond /\ [][NextCond]_vars

\* ------------------------------ map_program on explicitly terminated programs
MaxBalanced == 6

\* the statements of such a program: two block openers, a continuation, a
\* terminal Line and the terminator
BalancedPool ==
  { Line("IF", <<<<"x">>, <<"zh_shi">>, <<"1",":">>>>, "~"),
    Line("WHILE", <<<<"o","k">>, <<"x",":">>>>, "~"),
    Line("ELSE", <<>>, "~"),
    Line("PRINT", <<<<"x">>>>, "~"),
    BlockEnd("~") }

IsOpener(s) ==
  s.type = "Line" /\ s.action \in {"DEF", "IF", "ELIF", "ELSE", "WHILE", "FOR",
                                   "TRY", "EXCEPT", "FINALLY"}

\* from statement i on, with `open` blocks open: every BlockEnd closes an open
\* block, every continuation Line directly follows a BlockEnd, and no block is
\* left open at the end
RECURSIVE BalancedFrom(_, _, _)
BalancedFrom(stmts, i, open) ==
  IF i > Len(stmts) THEN open = 0
  ELSE LET s == stmts[i]
       IN IF s.type = "BLOCK_END"
          THEN open > 0 /\ BalancedFrom(stmts, i + 1, open - 1)
          ELSE IF s.type = "Line" /\ s.action \in Continuations
          THEN /\ i > 1
               /\ stmts[i - 1].type = "BLOCK_END"
               /\ BalancedFrom(stmts, i + 1, open + 1)
          ELSE IF IsOpener(s)
          THEN BalancedFrom(stmts, i + 1, open + 1)
          ELSE BalancedFrom(stmts, i + 1, open)

Balanced(stmts) ==
  /\ \A i \in 1..Len(stmts) : stmts[i].type \in {"Line", "BLOCK_END"}
  /\ BalancedFrom(stmts, 1, 0)

InitBalanced ==
  /\ \E stmts \in {s \in BSeq(BalancedPool, MaxBalanced) : Balanced(s)} :
       /\ program = ProgramOf(stmts)
       /\ program_in = ProgramOf(stmts)
  /\ gpos = 1
  /\ ctx = NewIndentContext
  /\ lines = <<>>
  /\ output = None
  /\ gstatus = "run"
  /\ gerror = ""
  /\ ParseIdle
  /\ FnIdle
  /\ DrvIdle

SpecBalanced == InitBalanced /\ [][Next]_vars
\* ------------------------------------------------------ map_program, whole
\* map_program as a function of the statement list, for comparing two inputs:
\* the lines it returns, or the MapError it raises
RECURSIVE Generate(_, _, _)
Generate(stmts, c, acc) ==
  IF stmts = <<>> THEN [err |-> "", lines |-> acc]
  ELSE LET r == map_statement(Head(stmts), c)
       IN IF r.err # "" THEN [err |-> r.err, lines |-> <<>>]
          ELSE Generate(Tail(stmts), r.ctx, acc \o r.lines)

\* ================================================================== claims
InsertAt(seq, i, x) == SubSeq(seq, 1, i - 1) \o <<x>> \o SubSeq(seq, i, Len(seq))

IsContinuation(s) == s.type = "Line" /\ s.action \in {"ELIF", "ELSE", "EXCEPT", "FINALLY"}

GenEnded == gstatus \in {"done", "error"}

GenHasStmt == gstatus = "run" /\ gpos <= Len(Paths(program))

GenStmt == StmtAt(program, Paths(program)[gpos])

\* C1: dedent compensation.  For a program P + [c] + T given to map_program,
\* with c a continuation Line (ELIF/ELSE/EXCEPT/FINALLY) and the last statement
\* of P a Line, map_program on P + [BlockEnd, c] + T returns exactly the same
\* lines (and raises exactly when the first raises).
C1_DedentCompensation ==
  GenEnded =>
    LET stmts == Statements(program_in)
    IN \A i \in 2..Len(stmts) :
         (IsContinuation(stmts[i]) /\ stmts[i - 1].type = "Line") =>
           LET alt == Generate(InsertAt(stmts, i, BlockEnd("~")),
                               NewIndentContext, <<>>)
           IN IF gstatus = "done"
              THEN alt.err = "" /\ alt.lines = lines
              ELSE alt.err = gerror

\* C1 witness: if / body / else with no terminator ran to the end and the else
\* header is back at depth 0
C1_Witness ==
  /\ gstatus = "done"
  /\ Len(Statements(program_in)) = 3
  /\ IsContinuation(Statements(program_in)[3])
  /\ lines = <<<<"i","f"," ","x"," ","=","="," ","1",":">>, <<" "," "," "," ","p","r","i","n","t","(","x",")">>, <<"e","l","s","e",":">>>>

\* C2: unbalanced nesting is never an error.  The depth is never negative; a
\* BlockEnd processed at depth 0 leaves depth 0 and the run goes on; a
\* continuation Line whose compensating dedent happens at depth 0 is lowered
\* at depth 0 (its header unindented, depth 1 after it), and the only MapError
\* it can raise is the argument check of ELIF.
C2_UnbalancedNeverError ==
  [][ /\ ctx'.level >= 0
      /\ (GenHasStmt /\ ctx.level = 0 /\ GenStmt.type = "BLOCK_END") =>
           (ctx'.level = 0 /\ gstatus' = "run")
      /\ (GenHasStmt /\ ctx.level = 0 /\ IsContinuation(GenStmt)
          /\ ~ctx.last_was_block_end) =>
           IF GenStmt.action = "ELIF" /\ GenStmt.args = <<>>
           THEN gstatus' = "error" /\ ctx'.level = 0
           ELSE /\ gstatus' = "run"
                /\ ctx'.level = 1
                /\ Len(lines') = Len(lines) + 1
                /\ lines'[Len(lines')][1] # " "
    ]_vars

\* C2 witness: two BlockEnds were processed with no block open, the run goes
\* on and the tracker still sits at depth 0
C2_Witness ==
  /\ gstatus = "run"
  /\ gpos = 3
  /\ Statements(program_in)[1].type = "BLOCK_END"
  /\ Statements(program_in)[2].type = "BLOCK_END"
  /\ ctx.level = 0
  /\ ctx.last_was_block_end
  /\ lines = <<>>

\* the Line statements of a program, in order
RECURSIVE LinesOnly(_)
LinesOnly(stmts) ==
  IF stmts = <<>> THEN <<>>
  ELSE IF Head(stmts).type = "Line" THEN <<Head(stmts)>> \o LinesOnly(Tail(stmts))
  ELSE LinesOnly(Tail(stmts))

\* C3: when map_program returns, it returns one line per Line statement of
\* the program, in statement order (the k-th line is the lowering of the k-th
\* Line at some depth); Arrow, Block and BlockEnd contribute none.
C3_OneLinePerLine ==
  gstatus = "done" =>
    LET ls == LinesOnly(Statements(program_in))
    IN /\ Len(lines) = Len(ls)
       /\ \A k \in 1..Len(ls) :
            \E d \in 0..Len(ls) :
              map_line(ls[k], [level |-> d, last_was_block_end |-> FALSE]).lines
                = <<lines[k]>>

\* C3 witness: a returned run over a Block, an Arrow and one Line
C3_Witness ==
  /\ gstatus = "done"
  /\ Len(Statements(program_in)) = 3
  /\ \E i, j \in 1..3 : /\ Statements(program_in)[i].type = "Arrow"
                       /\ Statements(program_in)[j].type = "Block"
  /\ lines = <<<<"p","r","i","n","t","(","x",")">>>>

\* C8: map_program leaves the AST as it found it, whether it returns or raises.
C8_AstReadOnly == GenEnded => program = program_in

\* ------------------------------------------------------------- parser claims
RECURSIVE FlattenSegments(_)
FlattenSegments(segments) ==
  IF segments = <<>> THEN <<>>
  ELSE Head(segments).lines \o FlattenSegments(Tail(segments))

\* the statements appended so far, one per token taken; after the return, the
\* statements of the returned Program
Parsed ==
  IF pstatus = "done" THEN Statements(Program(flows))
  ELSE FlattenSegments(current_flow) \o current_segment

HasArrowMarker(raw_args) ==
  \E k \in 1..Len(raw_args) : raw_args[k] \in {<<"-",">">>, <<"<","-">>}

\* the marker the parser goes by is followed by a token
MarkerHasTarget(raw_args) ==
  LET m == IF \E k \in 1..Len(raw_args) : raw_args[k] = <<"-",">">>
           THEN <<"-",">">> ELSE <<"<","-">>
  IN \E k \in 1..(Len(raw_args) - 1) :
       raw_args[k] = m /\ \A j \in 1..(k - 1) : raw_args[j] # m

\* a token that is no terminator, has a valid line_state and carries a marker
ArrowToken(t) ==
  /\ \A w \in STRUCT_IDS["BLOCK_END"] : t.raw_action # w
  /\ t.line_state \in {"~", ">", "<", "!", "?"}
  /\ HasArrowMarker(t.raw_args)

HasColon(t) == t.raw_action # <<>> /\ t.raw_action[Len(t.raw_action)] = ":"

\* C4 as stated: every such token is emitted as an Arrow, or the parse fails
\* with "Arrow missing target", whether or not the keyword ends with a colon.
C4_ArrowBeforeHeader ==
  \A i \in 1..Len(tokens) :
    ArrowToken(tokens[i]) =>
      /\ i <= Len(Parsed) =>
           Parsed[i].type = "Arrow" /\ MarkerHasTarget(tokens[i].raw_args)
      /\ (pstatus = "error" /\ i = tpos) =>
           perror = "Arrow missing target" /\ ~MarkerHasTarget(tokens[i].raw_args)

\* C4 amended: block-header detection comes before the arrow handling.  Such a
\* token whose leading keyword does not end with a colon is emitted as an
\* Arrow, or the parse fails with "Arrow missing target" when no token follows
\* the marker; one whose keyword ends with a colon is emitted as the
\* ELSE/TRY/FINALLY Line or the Block of that keyword and never fails.
C4_ArrowAfterHeader ==
  \A i \in 1..Len(tokens) :
    ArrowToken(tokens[i]) =>
      /\ (i <= Len(Parsed) /\ ~HasColon(tokens[i])) =>
           Parsed[i].type = "Arrow" /\ MarkerHasTarget(tokens[i].raw_args)
      /\ (i <= Len(Parsed) /\ HasColon(tokens[i])) =>
           \/ Parsed[i].type = "Block"
           \/ Parsed[i].type = "Line" /\ Parsed[i].action \in {"ELSE", "TRY", "FINALLY"}
                /\ Parsed[i].args = <<>>
      /\ (pstatus = "error" /\ i = tpos) =>
           /\ ~HasColon(tokens[i])
           /\ perror = "Arrow missing target"
           /\ ~MarkerHasTarget(tokens[i].raw_args)

\* C4 witness: a returned parse of an arrow line and of a colon keyword that
\* carries a marker, the first an Arrow and the second an ELSE Line
C4_Witness ==
  /\ pstatus = "done"
  /\ Len(tokens) = 2
  /\ ArrowToken(tokens[1]) /\ ~HasColon(tokens[1])
  /\ ArrowToken(tokens[2]) /\ HasColon(tokens[2])
  /\ Parsed[1].type = "Arrow" /\ Parsed[1].from = <<"A">> /\ Parsed[1].to = <<"B">>
  /\ Parsed[2].type = "Line" /\ Parsed[2].action = "ELSE"

\* C5: in the returned Program every Line or Arrow whose line_state is ">" is
\* the last statement of its Segment, and every Segment but the last ends
\* with such a statement (a Block or BlockEnd never closes one).
C5_ClosingEndsSegment ==
  pstatus = "done" =>
    \A f \in 1..Len(flows) :
      \A s \in 1..Len(flows[f].segments) :
        LET seg == flows[f].segments[s].lines
        IN /\ \A l \in 1..Len(seg) :
                (seg[l].type \in {"Line", "Arrow"} /\ seg[l].line_state = ">")
                  => l = Len(seg)
           /\ s < Len(flows[f].segments) =>
                /\ seg[Len(seg)].type \in {"Line", "Arrow"}
                /\ seg[Len(seg)].line_state = ">"

\* C6: every statement of a returned Program carries a line_state of the
\* 5-symbol alphabet, and a token list with a line_state outside it is never
\* parsed to a Program.
C6_LineStateAlphabet ==
  pstatus = "done" =>
    /\ \A i \in 1..Len(Parsed) : Parsed[i].line_state \in {"~", ">", "<", "!", "?"}
    /\ \A i \in 1..Len(tokens) : tokens[i].line_state \in {"~", ">", "<", "!", "?"}

\* C10: no Block of a returned Program is named by an alias of the action
\* registry.
C10_NoActionNamedBlock ==
  pstatus = "done" =>
    \A i \in 1..Len(Parsed) :
      Parsed[i].type = "Block" =>
        \A id \in DOMAIN ACTION_IDS : Parsed[i].name \notin ACTION_IDS[id]

\* ------------------------------------------------------------ lowering claims
IsArithAlias(t) ==
  t \in {<<"zh_jia">>, <<"a","d","d">>, <<"zh_jian">>, <<"s","u","b">>, <<"zh_cheng">>, <<"m","u","l">>, <<"zh_chu">>, <<"d","i","v">>}

OpSymbol(t) ==
  CASE t \in {<<"zh_jia">>, <<"a","d","d">>} -> <<"+">>
    [] t \in {<<"zh_jian">>, <<"s","u","b">>} -> <<"-">>
    [] t \in {<<"zh_cheng">>, <<"m","u","l">>} -> <<"*">>
    [] t \in {<<"zh_chu">>, <<"d","i","v">>} -> <<"/">>

ArithSet == fn_out.fn = "map_set" /\ Len(fn_args) >= 2 /\ IsArithAlias(fn_args[2])

\* C7 as stated: an arithmetic-shaped SET lowers only with exactly 4 arguments
\* and a valid target; any other argument count raises.
C7_ArithSetOnlyFour ==
  ArithSet =>
    (fn_out.err = "" <=> (Len(fn_args) = 4 /\ is_valid_identifier(fn_args[1])))

\* C7 amended: a SET whose second argument is an operator alias lowers only
\* with a valid target and exactly 4 arguments, to `target = left OP right`,
\* or exactly 2 arguments, to the plain assignment `target = alias`; with 3
\* arguments or with 5 and more it raises.
C7_ArithSetTwoOrFour ==
  ArithSet =>
    LET n == Len(fn_args)
        valid == is_valid_identifier(fn_args[1])
    IN /\ fn_out.err = "" <=> (valid /\ n \in {2, 4})
       /\ (valid /\ n = 4) =>
            fn_out.text = fn_args[1] \o <<" ","="," ">> \o to_py_value(fn_args[3]) \o <<" ">>
                          \o OpSymbol(fn_args[2]) \o <<" ">> \o to_py_value(fn_args[4])
       /\ (valid /\ n = 2) => fn_out.text = fn_args[1] \o <<" ","="," ">> \o fn_args[2]

\* C7 witness: `set r add 2 2` lowered to `r = 2 + 2`
C7_Witness ==
  /\ fn_out.fn = "map_set"
  /\ fn_args = <<<<"r">>, <<"a","d","d">>, <<"2">>, <<"2">>>>
  /\ fn_out.err = ""
  /\ fn_out.text = <<"r"," ","="," ","2"," ","+"," ","2">>

StableClass(t) ==
  \/ is_numeric(t)
  \/ t \in {<<"T","r","u","e">>, <<"zh_zhen">>, <<"F","a","l","s","e">>, <<"zh_jia3">>, <<"N","o","n","e">>}
  \/ is_valid_identifier(t)

\* what a token of the stable classes lowers to
Canonical(t) ==
  IF t \in {<<"T","r","u","e">>, <<"zh_zhen">>} THEN <<"T","r","u","e">>
  ELSE IF t \in {<<"F","a","l","s","e">>, <<"zh_jia3">>} THEN <<"F","a","l","s","e">>
  ELSE t

\* C9 as stated: a numeric, boolean/none or identifier token lowers alike in
\* both contexts, and any other token is a quoted literal in both.
C9_ContextStable ==
  fn_out.fn = "value" =>
    IF StableClass(fn_out.sym)
    THEN fn_out.text = fn_out.cond
    ELSE fn_out.text = Quote(fn_out.sym) /\ fn_out.cond = Quote(fn_out.sym)

\* C9 amended: a numeric, boolean/none or identifier token other than quit
\* and exit lowers alike in both contexts (to the target literal, or to
\* itself); quit and exit stay bare in the general context and are quoted in
\* a condition; any other token is a quoted literal in the general context,
\* and in a condition too unless it is one of == != > < >= <=, which a
\* condition keeps verbatim.
C9_ContextStableButQuitExit ==
  fn_out.fn = "value" =>
    LET t == fn_out.sym
    IN IF t \in {<<"q","u","i","t">>, <<"e","x","i","t">>}
       THEN fn_out.text = t /\ fn_out.cond = Quote(t)
       ELSE IF StableClass(t)
       THEN fn_out.text = fn_out.cond /\ fn_out.text = Canonical(t)
       ELSE /\ fn_out.text = Quote(t)
            /\ fn_out.cond =
                 IF t \in {<<"=","=">>, <<"!","=">>, <<">">>, <<"<">>, <<">","=">>, <<"<","=">>} THEN t ELSE Quote(t)

\* C9 witness: a negative decimal lowered to itself in both contexts
C9_Witness ==
  /\ fn_out.fn = "value"
  /\ fn_out.sym = <<"-","1",".","5">>
  /\ fn_out.text = <<"-","1",".","5">>
  /\ fn_out.cond = <<"-","1",".","5">>


\* ------------------------------------------------------- parse result shape
\* the statement the parser makes of one token, by the token's kind
StatementOf(t, stmt) ==
  /\ stmt.line_state = t.line_state
  /\ IF \E w \in STRUCT_IDS["BLOCK_END"] : t.raw_action = w
     THEN stmt.type = "BLOCK_END"
     ELSE IF HasColon(t)
     THEN \/ stmt.type = "Block" /\ stmt.name \o <<":">> = t.raw_action
          \/ stmt.type = "Line" /\ stmt.action \in {"ELSE", "TRY", "FINALLY"}
     ELSE IF HasArrowMarker(t.raw_args)
     THEN stmt.type = "Arrow" /\ t.raw_action \in {stmt.from, stmt.to}
     ELSE stmt.type = "Line" /\ stmt.args = t.raw_args
          /\ t.raw_action \in ACTION_IDS[stmt.action]

\* C11: a returned Program has at most one Flow, and none exactly when there
\* was no token; none of its Segments is empty; and the statements of its
\* Segments, concatenated in order, are one statement per token, in the order
\* of the tokens.
C11_OneStatementPerToken ==
  pstatus = "done" =>
    /\ Len(flows) <= 1
    /\ flows = <<>> <=> tokens = <<>>
    /\ \A f \in 1..Len(flows) :
         \A s \in 1..Len(flows[f].segments) : flows[f].segments[s].lines # <<>>
    /\ Len(Statements(Program(flows))) = Len(tokens)
    /\ \A i \in 1..Len(tokens) : StatementOf(tokens[i], Statements(Program(flows))[i])

\* C11 witness: two tokens parsed to one Flow of a Segment closed by ">" and a
\* flushed trailing Segment
C11_Witness ==
  /\ pstatus = "done"
  /\ Len(tokens) = 2
  /\ tokens[1].line_state = ">" /\ tokens[2].line_state = "~"
  /\ Len(flows) = 1
  /\ Len(flows[1].segments) = 2
  /\ flows[1].segments[1].lines = <<Line("PRINT", <<>>, ">")>>
  /\ flows[1].segments[2].lines = <<Arrow(<<"A">>, <<"B">>, <<"-",">">>, "~")>>

\* ------------------------------------------------------------- driver claims
\* C12: in auto mode an AST with a legacy Line goes to the python pipeline;
\* without one, an AST with an Arrow goes to the flow pipeline, and any other
\* AST goes to the flow pipeline too.  An AST with both a Line and an Arrow is
\* sent to the python pipeline.
C12_LegacyLinesFirst ==
  (mode = "auto" /\ chosen # None) =>
    LET stmts == Statements(Program(flows))
        anyLine == \E i \in 1..Len(stmts) : stmts[i].type = "Line"
    IN chosen = IF anyLine THEN "python" ELSE "flow"

\* --------------------------------------------------------- generator claims
\* C13: after map_statement has processed a statement, last_was_block_end is
\* TRUE exactly when that statement was a BlockEnd; a Line, a Block and an
\* Arrow each leave it FALSE.
C13_FlagIffBlockEnd ==
  (gstatus \in {"run", "done"} /\ gpos > 1) =>
    (ctx.last_was_block_end <=> Statements(program_in)[gpos - 1].type = "BLOCK_END")

BlockOpeners ==
  {"DEF", "IF", "ELIF", "ELSE", "WHILE", "FOR", "TRY", "EXCEPT", "FINALLY"}

Terminals ==
  {"RETURN", "BREAK", "CONTINUE", "PASS", "PRINT", "SET", "CALL",
   "ADD", "SUB", "MUL", "DIV"}

\* the number of spaces a line starts with
RECURSIVE LeadingSpaces(_)
LeadingSpaces(line) ==
  IF line = <<>> \/ Head(line) # " " THEN 0 ELSE 1 + LeadingSpaces(Tail(line))

\* the depth a Line is lowered at: the level after its compensating dedent
DepthAfterCompensation(s, c) ==
  IF IsContinuation(s) /\ ~c.last_was_block_end /\ c.level > 0
  THEN c.level - 1 ELSE c.level

\* the step lowers the statement GenStmt without a MapError
GenStepOk == GenHasStmt /\ gstatus' = "run" /\ gpos' = gpos + 1

\* C14: with d the depth after any compensating dedent, a block-opening Line
\* that is lowered emits one header line with exactly d indentation units and
\* leaves depth d + 1; a terminal Line emits one line with exactly d units and
\* leaves the depth unchanged; a Block and an Arrow emit nothing and leave the
\* depth unchanged.  Two consecutive terminal Lines get the same prefix length.
C14_DepthTransition ==
  [][ GenStepOk =>
        LET s == GenStmt
            d == DepthAfterCompensation(s, ctx)
            last == lines'[Len(lines')]
        IN /\ (s.type = "Line" /\ s.action \in BlockOpeners) =>
                /\ Len(lines') = Len(lines) + 1
                /\ LeadingSpaces(last) = d * Len(indent_str)
                /\ ctx'.level = d + 1
           /\ (s.type = "Line" /\ s.action \in Terminals) =>
                /\ Len(lines') = Len(lines) + 1
                /\ LeadingSpaces(last) = d * Len(indent_str)
                /\ d = ctx.level
                /\ ctx'.level = ctx.level
           /\ s.type \in {"Block", "Arrow"} =>
                lines' = lines /\ ctx'.level = ctx.level
           /\ (s.type = "Line" /\ s.action \in Terminals /\ gpos > 1
               /\ Statements(program_in)[gpos - 1].type = "Line"
               /\ Statements(program_in)[gpos - 1].action \in Terminals) =>
                LeadingSpaces(last) = LeadingSpaces(lines[Len(lines)])
    ]_vars

\* C14 witness: a header at depth 0 opened depth 1, and the two terminal Lines
\* after it were both emitted with one indentation unit, the depth still 1
C14_Witness ==
  /\ gstatus = "run"
  /\ gpos = 4
  /\ ctx.level = 1
  /\ lines = <<<<"w","h","i","l","e"," ","o","k","(","x",")",":">>, <<" "," "," "," ","p","r","i","n","t","(","x",")">>, <<" "," "," "," ","b","r","e","a","k">>>>

\* ------------------------------------------------------- condition claims
IsCondAlias(t) == t \in {<<"zh_shi">>, <<"zh_bu","zh_shi">>, <<"zh_huo">>, <<"zh_qie">>}

AliasSymbol(t) ==
  CASE t = <<"zh_shi">> -> <<"=","=">>
    [] t = <<"zh_bu","zh_shi">> -> <<"!","=">>
    [] t = <<"zh_huo">> -> <<"o","r">>
    [] t = <<"zh_qie">> -> <<"a","n","d">>

IsCondOperator(t) == t \in {<<"=","=">>, <<"!","=">>, <<"o","r">>, <<"a","n","d">>, <<">">>, <<"<">>, <<">","=">>, <<"<","=">>}

\* the call shape: two tokens or more, an identifier first, no equality and
\* no disjunction alias
CallShape(a) ==
  /\ Len(a) >= 2
  /\ is_valid_identifier(a[1])
  /\ \A i \in 1..Len(a) : a[i] # <<"zh_shi">> /\ a[i] # <<"zh_huo">>

CallText(a) ==
  a[1] \o <<"(">>
  \o Join([i \in 1..(Len(a) - 1) |-> to_py_value(a[i + 1])], <<","," ">>) \o <<")">>

\* the i-th token is an alias that stands between two tokens and does not
\* directly follow a substituted occurrence of the same alias
RECURSIVE Substituted(_, _)
Substituted(a, i) ==
  /\ 1 < i /\ i < Len(a)
  /\ IsCondAlias(a[i])
  /\ ~(a[i - 1] = a[i] /\ Substituted(a, i - 1))

\* fn_args is the argument list as build_condition left it, its last token
\* stripped of its colons
CondBuilt == fn_out.fn = "build_condition"

\* C15 as stated: in the call shape the condition is `first(lowered rest)`;
\* otherwise every alias token is replaced by its operator, operator tokens
\* are kept and every other token is lowered, so that no alias token is left
\* in the condition.
C15_EveryAliasReplaced ==
  CondBuilt =>
    IF CallShape(fn_args) THEN fn_out.text = CallText(fn_args)
    ELSE /\ fn_out.text =
              Join([i \in 1..Len(fn_args) |->
                      IF IsCondAlias(fn_args[i]) THEN AliasSymbol(fn_args[i])
                      ELSE IF IsCondOperator(fn_args[i]) THEN fn_args[i]
                      ELSE to_py_value_for_condition(fn_args[i])], <<" ">>)
         /\ \A k \in 1..Len(Split(fn_out.text)) : ~IsCondAlias(Split(fn_out.text)[k])

\* C15 amended: in the call shape the condition is `first(lowered rest)`;
\* otherwise an alias token is replaced by its operator exactly when it
\* stands between two other tokens and does not directly follow a replaced
\* occurrence of the same alias; operator tokens are kept, and every other
\* token, an alias that is not replaced included, is lowered with the
\* condition-context value rule.
C15_InteriorAliasReplaced ==
  CondBuilt =>
    IF CallShape(fn_args) THEN fn_out.text = CallText(fn_args)
    ELSE fn_out.text =
           Join([i \in 1..Len(fn_args) |->
                   IF Substituted(fn_args, i) THEN AliasSymbol(fn_args[i])
                   ELSE IF IsCondOperator(fn_args[i]) THEN fn_args[i]
                   ELSE to_py_value_for_condition(fn_args[i])], <<" ">>)

\* C15 witness: name, equality alias, number and a trailing equality alias:
\* the alias between two tokens is replaced, the last
\* one is left in the condition
C15_Witness ==
  /\ CondBuilt
  /\ fn_args = <<<<"x">>, <<"zh_shi">>, <<"1">>, <<"zh_shi">>>>
  /\ fn_out.text = <<"x"," ","=","="," ","1"," ">> \o <<"zh_shi">>

\* ---------------------------------------------- balanced program claims
\* the number of blocks open before statement i: openers before it less the
\* terminators before it
RECURSIVE OpenBefore(_, _)
OpenBefore(stmts, i) ==
  IF i <= 1 THEN 0
  ELSE OpenBefore(stmts, i - 1)
       + (IF IsOpener(stmts[i - 1]) THEN 1
          ELSE IF stmts[i - 1].type = "BLOCK_END" THEN -1 ELSE 0)

\* the number of the output line of statement i, a Line
RECURSIVE LineNo(_, _)
LineNo(stmts, i) ==
  IF i = 0 THEN 0
  ELSE LineNo(stmts, i - 1) + (IF stmts[i].type = "Line" THEN 1 ELSE 0)

\* the header of the arm that the terminator before the continuation i closes
ArmHeader(stmts, i) ==
  CHOOSE j \in 1..(i - 2) :
    /\ IsOpener(stmts[j])
    /\ OpenBefore(stmts, j) = OpenBefore(stmts, i)
    /\ \A k \in (j + 1)..(i - 2) : OpenBefore(stmts, k) > OpenBefore(stmts, j)

\* C16: on a program of Lines and BlockEnds in which every block-opening Line
\* is closed by its own BlockEnd and every continuation Line directly follows
\* the BlockEnd of the previous arm, every output line is indented by the
\* number of blocks open at its statement, a continuation header has the
\* indentation of the header of the arm it continues, the tracker depth is
\* the number of open blocks throughout, and 0 when generation ends.
C16_BalancedDepth ==
  LET stmts == Statements(program_in)
  IN Balanced(stmts) =>
       /\ gstatus \in {"run", "done"}
       /\ ctx.level = OpenBefore(stmts, gpos)
       /\ gstatus = "done" => ctx.level = 0
       /\ \A i \in 1..(gpos - 1) :
            stmts[i].type = "Line" =>
              /\ LineNo(stmts, i) <= Len(lines)
              /\ LeadingSpaces(lines[LineNo(stmts, i)])
                   = Len(indent_str) * OpenBefore(stmts, i)
              /\ IsContinuation(stmts[i]) =>
                   LeadingSpaces(lines[LineNo(stmts, i)])
                     = LeadingSpaces(lines[LineNo(stmts, ArmHeader(stmts, i))])

\* C16 witness: a nested if / else, each arm closed by its own terminator,
\* ran to the end: the inner else is at the depth of the inner if
C16_Witness ==
  /\ gstatus = "done"
  /\ Balanced(Statements(program_in))
  /\ ctx.level = 0
  /\ lines = <<<<"w","h","i","l","e"," ","o","k","(","x",")",":">>, <<" "," "," "," ","i","f"," ","x"," ","=","="," ","1",":">>, <<" "," "," "," ","e","l","s","e",":">>>>
====
